---- MODULE Spec2Model ----
(***************************************************************************)
(* Storage / search core of von (src/model.py): the pickled Index (a dict  *)
(* source -> PickleMappingEntry), the pickled Cache (a list of entries),   *)
(* the session discipline of pickleObj, runSearch, and rebuildIndex.       *)
(*                                                                         *)
(* Python values are modelled as follows.                                  *)
(*   str            a sequence of code points, "X1" is <<88, 49>>          *)
(*   None / x       <<>> / <<x>>  (an optional value)                      *)
(*   list of objs   a record [es |-> values, ob |-> identities]: ob[k] is  *)
(*                  the least position holding the same object as k, so    *)
(*                  one object placed twice in a list is visible           *)
(*   dict           a function from its keys to its values                 *)
(*   int as source  <<-1, n>>: a metadata block may give `source: 2020`,   *)
(*                  which yaml loads as an int; no str holds -1            *)
(***************************************************************************)
EXTENDS Integers, Sequences, FiniteSets, TLC

VARIABLES indexFile, cacheFile, last, calls, sessions

vars == <<indexFile, cacheFile, last, calls, sessions>>

-----------------------------------------------------------------------------
(* Bounds of the model *)

\* longest Cache the model builds
MaxCacheLen == 2
\* longest argument list handed to setCache / augmentCache
MaxArgs == 2
\* most Documents one discovery (getAllProblems, os.listdir) yields
MaxDocs == 3
\* how many values of random.randrange's range the model draws from
RandSpan == 2
\* how many calls of the module's functions one run makes
MaxCalls == 3
\* how many steps (open, put, close) the sessions of two processes make
MaxSteps == 6

-----------------------------------------------------------------------------
(* Python values *)

None == <<>>
Some(x) == <<x>>

\* str.lower / str.upper on the ASCII code points the model uses
LowerChar(c) == IF c >= 65 /\ c <= 90 THEN c + 32 ELSE c
UpperChar(c) == IF c >= 97 /\ c <= 122 THEN c - 32 ELSE c
Lower(s) == [k \in 1..Len(s) |-> LowerChar(s[k])]
Upper(s) == [k \in 1..Len(s) |-> UpperChar(s[k])]

\* `needle in hay` for two str
Contains(hay, needle) ==
  \E k \in 0..(Len(hay) - Len(needle)) :
    \A j \in 1..Len(needle) : hay[k + j] = needle[j]

\* isinstance(x, str), for a str or an int as source
IsStr(x) == \A k \in 1..Len(x) : x[k] >= 0

\* str.startswith
StartsWith(s, prefix) ==
  /\ Len(prefix) <= Len(s)
  /\ \A j \in 1..Len(prefix) : s[j] = prefix[j]

\* s < t for two str: lexicographic on code points
RECURSIVE StrLt(_, _)
StrLt(s, t) ==
  IF t = <<>> THEN FALSE
  ELSE IF s = <<>> THEN TRUE
  ELSE IF s[1] # t[1] THEN s[1] < t[1]
  ELSE StrLt(Tail(s), Tail(t))

\* str.isdigit (ASCII digits)
IsDigit(s) == s # <<>> /\ \A k \in 1..Len(s) : s[k] >= 48 /\ s[k] <= 57

\* int(s) for a str of ASCII digits
RECURSIVE ParseInt(_)
ParseInt(s) ==
  IF s = <<>> THEN 0
  ELSE 10 * ParseInt(SubSeq(s, 1, Len(s) - 1)) + (s[Len(s)] - 48)

\* str(n) for n >= 0, as the f-string of rebuildIndex formats it
RECURSIVE Digits(_)
Digits(n) == IF n < 10 THEN <<48 + n>> ELSE Append(Digits(n \div 10), 48 + (n % 10))

\* s.strip() (the only whitespace of the model is the space)
RECURSIVE LStrip(_)
LStrip(s) == IF s # <<>> /\ s[1] = 32 THEN LStrip(Tail(s)) ELSE s
RECURSIVE RStrip(_)
RStrip(s) ==
  IF s # <<>> /\ s[Len(s)] = 32 THEN RStrip(SubSeq(s, 1, Len(s) - 1)) ELSE s
Strip(s) == RStrip(LStrip(s))

\* s.split(' '): the list of the pieces between single spaces
RECURSIVE SplitSpace(_)
SplitSpace(s) ==
  IF \A k \in 1..Len(s) : s[k] # 32 THEN <<s>>
  ELSE LET k == CHOOSE j \in 1..Len(s) : s[j] = 32 /\ \A m \in 1..(j - 1) : s[m] # 32
       IN <<SubSeq(s, 1, k - 1)>> \o SplitSpace(SubSeq(s, k + 1, Len(s)))

Range(f) == {f[x] : x \in DOMAIN f}

-----------------------------------------------------------------------------
(* The strings of the model *)

sX1 == <<88, 49>>                               \* "X1"
sEmpty == <<>>                                  \* ""
sA == <<65>>                                    \* "A"
sB == <<66>>                                    \* "B"
sLowA == <<97>>                                 \* "a"
sLowX == <<120>>                                \* "x"
sZ == <<90>>                                    \* "Z"
sBo == <<98, 111>>                              \* "bo"
sAlBo == <<65, 108, 32, 66, 111>>               \* "Al Bo"
sOld == <<111, 108, 100>>                       \* "old"
sNew == <<110, 101, 119>>                       \* "new"
sDirA == <<97, 47>>                             \* "a/"
sPath1 == <<97, 47, 49>>                        \* "a/1"
sPath2 == <<97, 47, 50>>                        \* "a/2"
sPath3 == <<98, 47, 51>>                        \* "b/3"
sPath4 == <<98, 47, 52>>                        \* "b/4"
sWaltz == <<119, 97, 108, 116, 122>>            \* "waltz"
sDuplicate == <<68, 85, 80, 76, 73, 67, 65, 84, 69, 32>>  \* "DUPLICATE "

-----------------------------------------------------------------------------
(* GenericItem, Problem, PickleMappingEntry *)

\* rc.SORT_TAGS, the priority tag list: the list [A, B] of the specification
SORT_TAGS == <<sA, sB>>

\* A Problem as makeProblemFromPath builds it: the class defaults of
\* GenericItem overwritten by the keys of the file's metadata block.
\* A file that declares no source keeps the class default "".
Problem(path, source, desc, author, hardness, tags) ==
  [path |-> path, source |-> source, desc |-> desc, author |-> author,
   url |-> None, hardness |-> hardness, tags |-> tags, i |-> None]

\* The Documents a discovery can yield (one per file path)
P1 == Problem(sPath1, sX1, sOld, Some(sAlBo), Some(5), <<sA>>)
P2 == Problem(sPath2, sX1, sNew, None, None, <<sB>>)
P3 == Problem(sPath3, sEmpty, sEmpty, None, Some(2), <<>>)
P4 == Problem(sPath4, sX1, sOld, None, Some(-2), <<sLowA>>)
Docs == {P1, P2, P3, P4}
\* a Document whose source is made of digits only
PDigits == Problem(sPath4, <<49>>, sOld, None, Some(1), <<sB>>)
\* the file of P1 edited to say `source: 2020`: yaml loads the source as an int
PIntSource == Problem(sPath1, <<-1, 2020>>, sNew, None, None, <<sA>>)
\* the three of them the longer runs work with
CoreDocs == {P1, P2, P3}

\* Problem.entry with the source keyword left out: the entry keeps the class
\* default ""
Problem_entry_NoSource(p) ==
  [source |-> sEmpty, desc |-> p.desc, author |-> p.author, url |-> p.url,
   hardness |-> p.hardness, tags |-> p.tags, path |-> p.path, i |-> p.i]

\* Problem.entry: a new PickleMappingEntry carrying the eight fields; a None
\* keyword is skipped, which leaves the class default None
Problem_entry(p) ==
  [source |-> p.source, desc |-> p.desc, author |-> p.author, url |-> p.url,
   hardness |-> p.hardness, tags |-> p.tags, path |-> p.path, i |-> p.i]

\* GenericItem.sortvalue: the index of the first priority tag the item carries
sortvalue(e) ==
  IF \E k \in 1..Len(SORT_TAGS) : SORT_TAGS[k] \in Range(e.tags)
  THEN (CHOOSE k \in 1..Len(SORT_TAGS) :
          /\ SORT_TAGS[k] \in Range(e.tags)
          /\ \A j \in 1..(k - 1) : SORT_TAGS[j] \notin Range(e.tags)) - 1
  ELSE -1

\* GenericItem.sortkey
sortkey(e) ==
  IF e.hardness # None
  THEN <<sortvalue(e), e.hardness[1], e.source>>
  ELSE <<sortvalue(e), -1, e.source>>

\* GenericItem.__lt__ comparing the hardness before the bucket
GenericItem_lt_HardnessFirst(a, b) ==
  LET x == sortkey(a)
      y == sortkey(b)
  IN IF x[2] # y[2] THEN x[2] < y[2]
     ELSE IF x[1] # y[1] THEN x[1] < y[1]
     ELSE StrLt(x[3], y[3])

\* GenericItem.__lt__: tuple comparison of the sort keys
GenericItem_lt(a, b) ==
  LET x == sortkey(a)
      y == sortkey(b)
  IN IF x[1] # y[1] THEN x[1] < y[1]
     ELSE IF x[2] # y[2] THEN x[2] < y[2]
     ELSE StrLt(x[3], y[3])

\* puid.inferPUID: the identifier normalisation of a source (its letters and
\* digits, upper-cased)
inferPUID(source) ==
  Upper(SelectSeq(source, LAMBDA c : \/ (c >= 48 /\ c <= 57)
                                     \/ (c >= 65 /\ c <= 90)
                                     \/ (c >= 97 /\ c <= 122)))

hasTag(e, tag) == Lower(tag) \in {Lower(t) : t \in Range(e.tags)}

hasTerm(e, term) ==
  LET blob == e.source \o <<32>> \o e.desc \o
              (IF e.author # None THEN <<32>> \o e.author[1] ELSE <<>>)
  IN \/ Contains(Lower(blob), Lower(term))
     \/ term \in Range(e.tags)
     \/ Contains(inferPUID(e.source), Upper(term))

hasAuthor(e, name) ==
  IF e.author = None THEN FALSE
  ELSE Lower(name) \in Range(SplitSpace(Strip(Lower(e.author[1]))))

hasSource(e, source) == Contains(Lower(e.source), Lower(source))

-----------------------------------------------------------------------------
(* pickleObj: one store file, loaded at the start of a session and dumped   *)
(* at its end when the session was opened 'wb'                              *)

\* no file at the store's path
NoFile == <<>>

\* a list of distinct objects holding the values es
FreshList(es) == [es |-> es, ob |-> [k \in 1..Len(es) |-> k]]

\* a + b for two lists that share no object
ListConcat(a, b) ==
  [es |-> a.es \o b.es,
   ob |-> a.ob \o [k \in 1..Len(b.ob) |-> b.ob[k] + Len(a.es)]]

\* pickleObj.__init__: the store of the session
pickleObj_init(file, initial) == IF file = NoFile THEN initial ELSE file[1]

\* pickleDictVonIndex._initial returning a mapping that holds an entry
Index_initial_Stale == [k \in {sZ} |-> Problem_entry([P1 EXCEPT !.source = sZ])]

\* pickleDictVonIndex._initial / pickleListVonCache._initial
Index_initial == <<>>
Cache_initial == FreshList(<<>>)

\* pickleObj.__exit__ without the test of the mode: every session dumps
pickleObj_exit_Always(mode, file, store) == <<store>>

\* pickleObj.__exit__ writing its own keys into what the file holds by now
pickleObj_exit_Merge(mode, file, store) ==
  IF mode # "wb" THEN file
  ELSE IF file = NoFile THEN <<store>>
  ELSE <<[k \in (DOMAIN file[1]) \cup (DOMAIN store) |->
            IF k \in DOMAIN store THEN store[k] ELSE file[1][k]]>>

\* pickleObj.__exit__: the file after the session
pickleObj_exit(mode, file, store) == IF mode = "wb" THEN <<store>> ELSE file

\* the persisted stores, as a session opened now would load them
Index == pickleObj_init(indexFile, Index_initial)
Cache == pickleObj_init(cacheFile, Cache_initial)

\* list.__getitem__ under pickleObj.__getitem__: a negative index counts from
\* the end, anything outside -len..len-1 raises IndexError
List_getitem(store, idx) ==
  LET n == Len(store.es)
  IN IF idx >= 0 /\ idx < n THEN [out |-> "ok", ret |-> <<store.es[idx + 1]>>]
     ELSE IF idx < 0 /\ idx >= -n THEN [out |-> "ok", ret |-> <<store.es[n + idx + 1]>>]
     ELSE [out |-> "IndexError", ret |-> <<>>]

\* the loop of pickleListVonCache.set from its k-th round on: store[k-1].i = k-1
\* is an assignment to an object, seen at every position that holds the object
RECURSIVE SetLoop(_, _, _)
SetLoop(es, ob, k) ==
  IF k > Len(es) THEN es
  ELSE SetLoop([j \in 1..Len(es) |->
                  IF ob[j] = ob[k] THEN [es[j] EXCEPT !.i = Some(k - 1)] ELSE es[j]],
               ob, k + 1)

\* pickleListVonCache.set without its loop: positions as the caller left them
pickleListVonCache_set_NoRenumber(store) == store

\* pickleListVonCache.set: the store after set(store)
pickleListVonCache_set(store) == [es |-> SetLoop(store.es, store.ob, 1), ob |-> store.ob]

\* list.__setitem__ under pickleObj.__setitem__: position k (from 1) now holds
\* a new object of value e
List_setitem(store, k, e) ==
  LET es == [store.es EXCEPT ![k] = e]
      cut == [j \in 1..Len(es) |-> IF j = k THEN 0 ELSE store.ob[j]]
  IN [es |-> es,
      ob |-> [j \in 1..Len(es) |->
                IF j = k THEN k
                ELSE CHOOSE m \in 1..j : cut[m] = cut[j] /\ \A q \in 1..(m - 1) : cut[q] # cut[j]]]

-----------------------------------------------------------------------------
(* What callers hand in *)

\* the Entries a caller can hold: projected from a Document, or read from a store
CallerEntries(D) ==
  {Problem_entry(p) : p \in D} \cup Range(Index) \cup Range(Cache.es)

\* the argument lists of at most n objects with values in S; one object may
\* occur several times
ArgLists(S, n) ==
  UNION {
    {[es |-> es, ob |-> ob] :
       <<es, ob>> \in {x \in [1..m -> S] \X [1..m -> 1..m] :
                         \A k \in 1..m : /\ x[2][k] <= k
                                         /\ x[2][x[2][k]] = x[2][k]
                                         /\ x[1][k] = x[1][x[2][k]]}}
    : m \in 0..n}

\* what the last call did: its name, "ok" or the exception it raised, what it
\* returned (a list; one entry or None as <<e>> or <<>>), and for rebuildIndex
\* the number of collisions it reported
Ret(op, out, ret) == [op |-> op, out |-> out, ret |-> ret, errs |-> 0]

-----------------------------------------------------------------------------
(* The Cache operations *)

\* setCache(entries)
setCache_file(file, entries) ==
  pickleObj_exit("wb", file, pickleListVonCache_set(entries))

setCache(entries) ==
    /\ Len(entries.es) <= MaxCacheLen
    /\ cacheFile' = setCache_file(cacheFile, entries)
    /\ last' = Ret("setCache", "ok", <<>>)
    /\ UNCHANGED indexFile

\* augmentCache(*entries)
augmentCache(entries) ==
    LET cache == pickleObj_init(cacheFile, Cache_initial)
    IN /\ Len(cache.es) + Len(entries.es) <= MaxCacheLen
       /\ cacheFile' = pickleObj_exit("wb", cacheFile,
                         pickleListVonCache_set(ListConcat(cache, entries)))
       /\ last' = Ret("augmentCache", "ok", <<>>)
       /\ UNCHANGED indexFile

\* clearCache()
clearCache ==
  /\ cacheFile' = pickleObj_exit("wb", cacheFile, pickleListVonCache_set(FreshList(<<>>)))
  /\ last' = Ret("clearCache", "ok", <<>>)
  /\ UNCHANGED indexFile

\* readCache(): the session object, whose store is the loaded list
readCache ==
  LET cache == pickleObj_init(cacheFile, Cache_initial)
  IN /\ cacheFile' = pickleObj_exit("rb", cacheFile, cache)
     /\ last' = Ret("readCache", "ok", cache.es)
     /\ UNCHANGED indexFile

\* getEntryByCacheNum(n)
getEntryByCacheNum_ret(file, n) ==
  List_getitem(pickleObj_init(file, Cache_initial), n - 1)

getEntryByCacheNum(n) ==
  LET r == getEntryByCacheNum_ret(cacheFile, n)
  IN /\ cacheFile' = pickleObj_exit("rb", cacheFile, pickleObj_init(cacheFile, Cache_initial))
     /\ last' = Ret("getEntryByCacheNum", r.out, r.ret)
     /\ UNCHANGED indexFile

-----------------------------------------------------------------------------
(* dict under pickleObj, and the two sort orders *)

\* dict.__setitem__ under pickleObj.__setitem__ (every key of the model is a str)
Dict_setitem(store, key, value) ==
  [k \in (DOMAIN store) \cup {key} |-> IF k = key THEN value ELSE store[k]]

\* dict.__delitem__ under pickleObj.__delitem__; a missing key raises KeyError
Dict_delitem(store, key) == [k \in (DOMAIN store) \ {key} |-> store[k]]

\* the order of result.sort(key=lambda e: e.source) / result.sort()
Less(a, b, alph_sort) ==
  IF alph_sort THEN StrLt(a.source, b.source) ELSE GenericItem_lt(a, b)

\* list.sort: stable, e goes before the first element it is less than
RECURSIVE ListInsert(_, _, _)
ListInsert(sorted, e, alph_sort) ==
  IF sorted = <<>> THEN <<e>>
  ELSE IF Less(e, sorted[Len(sorted)], alph_sort)
       THEN Append(ListInsert(SubSeq(sorted, 1, Len(sorted) - 1), e, alph_sort),
                   sorted[Len(sorted)])
       ELSE Append(sorted, e)

RECURSIVE ListSort(_, _)
ListSort(es, alph_sort) ==
  IF es = <<>> THEN <<>>
  ELSE ListInsert(ListSort(SubSeq(es, 1, Len(es) - 1), alph_sort), es[Len(es)], alph_sort)

\* the keys of a dict as a list. The model lists them in ascending order; the
\* lists built from it are sorted on keys that hold the unique source, so the
\* order of iteration does not show in them.
RECURSIVE KeyList(_)
KeyList(keys) ==
  IF keys = {} THEN <<>>
  ELSE LET m == CHOOSE k \in keys : \A j \in keys \ {k} : StrLt(k, j)
       IN <<m>> \o KeyList(keys \ {m})

\* Mapping.values() of a pickleObj: for key in iter(store): yield self[key].
\* On the dict these are its values. On the list, iter(store) yields the
\* entries themselves and self[entry] indexes a list with an entry: TypeError,
\* which pickleObj.__getitem__ does not catch.
Dict_values(store) == LET ks == KeyList(DOMAIN store) IN [k \in 1..Len(ks) |-> store[ks[k]]]
List_values(store) ==
  IF store.es = <<>> THEN [out |-> "ok", ret |-> <<>>]
  ELSE [out |-> "TypeError", ret |-> <<>>]

-----------------------------------------------------------------------------
(* Lookups *)

\* getEntryBySource(source)
getEntryBySource_ret(file, source) ==
  LET index == pickleObj_init(file, Index_initial)
  IN IF source \in DOMAIN index THEN Some(index[source]) ELSE None

getEntryBySource(source) ==
  /\ indexFile' = pickleObj_exit("rb", indexFile, pickleObj_init(indexFile, Index_initial))
  /\ last' = Ret("getEntryBySource", "ok", getEntryBySource_ret(indexFile, source))
  /\ UNCHANGED cacheFile

\* getEntryByKey trying the key as a source first
getEntryByKey_SourceFirst(key) ==
  LET index == pickleObj_init(indexFile, Index_initial)
      r == IF key \in DOMAIN index \/ ~IsDigit(key)
           THEN [out |-> "ok", ret |-> getEntryBySource_ret(indexFile, key)]
           ELSE getEntryByCacheNum_ret(cacheFile, ParseInt(key))
  IN /\ last' = Ret("getEntryByKey", r.out, r.ret)
     /\ UNCHANGED <<indexFile, cacheFile>>

\* getEntryByKey(key)
getEntryByKey(key) ==
  LET r == IF IsDigit(key)
           THEN getEntryByCacheNum_ret(cacheFile, ParseInt(key))
           ELSE [out |-> "ok", ret |-> getEntryBySource_ret(indexFile, key)]
  IN /\ last' = Ret("getEntryByKey", r.out, r.ret)
     /\ UNCHANGED <<indexFile, cacheFile>>

-----------------------------------------------------------------------------
(* The Index operations *)

\* addEntryToIndex(entry)
addEntryToIndex(entry) ==
  LET index == pickleObj_init(indexFile, Index_initial)
  IN IF ~IsStr(entry.source)
     THEN \* assert isinstance(key, str) fails; __exit__ dumps the store it loaded
          /\ indexFile' = pickleObj_exit("wb", indexFile, index)
          /\ last' = Ret("addEntryToIndex", "AssertionError", <<>>)
          /\ UNCHANGED cacheFile
     ELSE /\ indexFile' = pickleObj_exit("wb", indexFile, Dict_setitem(index, entry.source, entry))
          /\ last' = Ret("addEntryToIndex", "ok", <<>>)
          /\ UNCHANGED cacheFile

\* addProblemToIndex(problem)
addProblemToIndex(problem) ==
  LET index == pickleObj_init(indexFile, Index_initial)
      store == Dict_setitem(index, problem.source, Problem_entry(problem))
  IN IF ~IsStr(problem.source)
     THEN /\ indexFile' = pickleObj_exit("wb", indexFile, index)
          /\ last' = Ret("addProblemToIndex", "AssertionError", <<>>)
          /\ UNCHANGED cacheFile
     ELSE /\ indexFile' = pickleObj_exit("wb", indexFile, store)
          /\ last' = Ret("addProblemToIndex", "ok", <<store[problem.source]>>)
          /\ UNCHANGED cacheFile

\* the cache half of updateEntryByProblem without its loop: always the else
updateCache_AlwaysAppend(cache, old_source, new_entry) ==
  LET st == pickleListVonCache_set(ListConcat(cache, FreshList(<<new_entry>>)))
  IN [store |-> st, entry |-> st.es[Len(st.es)]]

\* the cache half of updateEntryByProblem: the store after the for/else, and
\* new_entry as the loop left it
updateCache(cache, old_source, new_entry) ==
  IF \E k \in 1..Len(cache.es) : cache.es[k].source = old_source
  THEN LET k == CHOOSE j \in 1..Len(cache.es) :
                  /\ cache.es[j].source = old_source
                  /\ \A m \in 1..(j - 1) : cache.es[m].source # old_source
           e == [new_entry EXCEPT !.i = Some(k - 1)]
       IN [store |-> List_setitem(cache, k, e), entry |-> e]
  ELSE LET st == pickleListVonCache_set(ListConcat(cache, FreshList(<<new_entry>>)))
       IN [store |-> st, entry |-> st.es[Len(st.es)]]

\* updateEntryByProblem(old_entry, new_problem)
updateEntryByProblem(old_entry, new_problem) ==
  LET new_entry == Problem_entry([new_problem EXCEPT !.i = old_entry.i])
      index == pickleObj_init(indexFile, Index_initial)
      cache == pickleObj_init(cacheFile, Cache_initial)
      renamed == old_entry.source # new_entry.source
      dropped == IF renamed THEN Dict_delitem(index, old_entry.source) ELSE index
  IN IF renamed /\ ~IsStr(old_entry.source)
     THEN \* the assert of __delitem__ fails; __exit__ dumps the store it loaded
          /\ indexFile' = pickleObj_exit("wb", indexFile, index)
          /\ last' = Ret("updateEntryByProblem", "AssertionError", <<>>)
          /\ UNCHANGED cacheFile
     ELSE IF renamed /\ old_entry.source \notin DOMAIN index
     THEN \* del raises KeyError; __exit__ still dumps the store it loaded
          /\ indexFile' = pickleObj_exit("wb", indexFile, index)
          /\ last' = Ret("updateEntryByProblem", "KeyError", <<>>)
          /\ UNCHANGED cacheFile
     ELSE IF ~IsStr(new_entry.source)
     THEN \* the assert of __setitem__ fails after the del was done; __exit__
          \* dumps the store as the del left it
          /\ indexFile' = pickleObj_exit("wb", indexFile, dropped)
          /\ last' = Ret("updateEntryByProblem", "AssertionError", <<>>)
          /\ UNCHANGED cacheFile
     ELSE LET upd == updateCache(cache, old_entry.source, new_entry)
          IN /\ Len(upd.store.es) <= MaxCacheLen
             /\ indexFile' = pickleObj_exit("wb", indexFile,
                                Dict_setitem(dropped, new_entry.source, new_entry))
             /\ cacheFile' = pickleObj_exit("wb", cacheFile, upd.store)
             /\ last' = Ret("updateEntryByProblem", "ok", <<upd.entry>>)

\* setEntireIndex as an update: the keys of the loaded Index that d lacks stay
setEntireIndex_file_Merge(file, d) ==
  LET index == pickleObj_init(file, Index_initial)
  IN <<[k \in (DOMAIN index) \cup (DOMAIN d) |-> IF k \in DOMAIN d THEN d[k] ELSE index[k]]>>

\* setEntireIndex(d)
setEntireIndex_file(file, d) == pickleObj_exit("wb", file, d)

setEntireIndex(d) ==
  /\ indexFile' = setEntireIndex_file(indexFile, d)
  /\ last' = Ret("setEntireIndex", "ok", <<>>)
  /\ UNCHANGED cacheFile

\* with VonIndex('wb') as index: index[key] = entry
\* pickleObj.__setitem__ asserts that the key of a dict store is a str, which
\* every key of the model is, and stores
IndexPut(key, entry) ==
  LET index == pickleObj_init(indexFile, Index_initial)
  IN /\ indexFile' = pickleObj_exit("wb", indexFile, Dict_setitem(index, key, entry))
     /\ last' = Ret("put", "ok", <<>>)
     /\ UNCHANGED cacheFile

\* random.randrange(10**6, 10**7)
RandLo == 1000000
RandHi == 10000000
RandValues == {n \in RandLo..(RandLo + RandSpan - 1) : n < RandHi}

\* the loop of rebuildIndex from its k-th Document on: d is the mapping built
\* so far, errs the number of view.error calls, rnd[k] the number randrange
\* returns if the k-th Document needs one, drawn the Documents that needed one
RECURSIVE rebuildLoop(_, _, _, _, _)
rebuildLoop(docs, rnd, k, d, errs) ==
  IF k > Len(docs) THEN [d |-> d, errs |-> errs, drawn |-> {}]
  ELSE LET p == docs[k]
           dup == p.source \in DOMAIN d
           q == IF dup THEN [p EXCEPT !.source = sDuplicate \o Digits(rnd[k])] ELSE p
           r == rebuildLoop(docs, rnd, k + 1, Dict_setitem(d, q.source, Problem_entry(q)),
                            IF dup THEN errs + 1 ELSE errs)
       IN [r EXCEPT !.drawn = IF dup THEN r.drawn \cup {k} ELSE r.drawn]

\* what getAllProblems / os.listdir can yield: files at different paths
DocSeqs(D, n) ==
  UNION {{s \in [1..m -> D] : \A a, b \in 1..m : a # b => s[a].path # s[b].path}
         : m \in 0..n}

\* rebuildIndex()
rebuildIndex(docs, rnd) ==
  LET r == rebuildLoop(docs, rnd, 1, <<>>, 0)
  IN /\ \A k \in 1..Len(docs) : k \notin r.drawn => rnd[k] = RandLo
     /\ indexFile' = setEntireIndex_file(indexFile, r.d)
     /\ last' = [Ret("rebuildIndex", "ok", <<>>) EXCEPT !.errs = r.errs]
     /\ UNCHANGED cacheFile

-----------------------------------------------------------------------------
(* Listing and search *)

\* the directory part of a path of the model ("a/1" is in "a/")
DirOf(path) == SubSeq(path, 1, 2)

\* viewDirectory without the test of len(entries): it stores what it listed
viewDirectory_StoreAlways(docs) ==
  LET entries == ListSort([k \in 1..Len(docs) |-> Problem_entry(docs[k])], FALSE)
      stored == pickleListVonCache_set(FreshList(entries))
  IN /\ \A a, b \in 1..Len(docs) : DirOf(docs[a].path) = DirOf(docs[b].path)
     /\ cacheFile' = setCache_file(cacheFile, FreshList(entries))
     /\ last' = Ret("viewDirectory", "ok", stored.es)
     /\ UNCHANGED indexFile

\* viewDirectory(path): docs are the Documents of the .tex files os.listdir
\* yields, in its order
viewDirectory(docs) ==
  LET entries == ListSort([k \in 1..Len(docs) |-> Problem_entry(docs[k])], FALSE)
      stored == pickleListVonCache_set(FreshList(entries))
  IN /\ \A a, b \in 1..Len(docs) : DirOf(docs[a].path) = DirOf(docs[b].path)
     /\ cacheFile' = IF Len(entries) > 0 THEN setCache_file(cacheFile, FreshList(entries))
                     ELSE cacheFile
     /\ last' = Ret("viewDirectory", "ok", IF Len(entries) > 0 THEN stored.es ELSE <<>>)
     /\ UNCHANGED indexFile

\* a call of runSearch: its arguments, and feed, the sources the file at
\* rc.OTIS_EVIL_JSON_PATH lists (None when the path is None)
Q0 ==
  [terms |-> <<>>, tags |-> <<>>, sources |-> <<>>, authors |-> <<>>, path |-> sEmpty,
   refine |-> FALSE, alph_sort |-> FALSE, in_otis |-> None, feed |-> None]

Filters ==
  { Q0,
    [Q0 EXCEPT !.tags = <<sLowA>>],
    [Q0 EXCEPT !.tags = <<sZ>>],
    [Q0 EXCEPT !.sources = <<sLowX>>],
    [Q0 EXCEPT !.terms = <<sNew>>],
    [Q0 EXCEPT !.authors = <<sBo>>],
    [Q0 EXCEPT !.path = sDirA],
    [Q0 EXCEPT !.tags = <<sB>>, !.sources = <<sLowX>>],
    [Q0 EXCEPT !.in_otis = Some(TRUE), !.feed = Some({sEmpty})],
    [Q0 EXCEPT !.in_otis = Some(FALSE), !.feed = Some({sEmpty})],
    [Q0 EXCEPT !.in_otis = Some(TRUE)] }

Queries ==
  Filters
  \cup {[f EXCEPT !.refine = TRUE] : f \in {Q0, [Q0 EXCEPT !.sources = <<sLowX>>]}}
  \cup {[f EXCEPT !.alph_sort = TRUE] : f \in {Q0, [Q0 EXCEPT !.path = sDirA]}}
  \cup {[Q0 EXCEPT !.refine = TRUE, !.alph_sort = TRUE]}

\* otis_used_sources of runSearch
otis_used_sources(q) == IF q.in_otis # None /\ q.feed # None THEN q.feed ELSE None

\* _matches(entry) inside runSearch
matches(entry, q) ==
  LET used == otis_used_sources(q)
      isUsed == used # None /\ (entry.source \in used[1] \/ hasTag(entry, sWaltz))
  IN IF used # None /\ isUsed /\ q.in_otis = Some(FALSE) THEN FALSE
     ELSE IF used # None /\ ~isUsed /\ q.in_otis = Some(TRUE) THEN FALSE
     ELSE /\ \A k \in 1..Len(q.tags) : hasTag(entry, q.tags[k])
          /\ \A k \in 1..Len(q.terms) : hasTerm(entry, q.terms[k])
          /\ \A k \in 1..Len(q.sources) : hasSource(entry, q.sources[k])
          /\ \A k \in 1..Len(q.authors) : hasAuthor(entry, q.authors[k])
          /\ StartsWith(entry.path, q.path)

\* runSearch reading the Index whatever refine says
runSearch_scan_IndexOnly(ifile, cfile, q) ==
  [out |-> "ok", ret |-> Dict_values(pickleObj_init(ifile, Index_initial))]

\* the values runSearch reads from the store it selects
runSearch_scan(ifile, cfile, q) ==
  IF q.refine = FALSE
  THEN [out |-> "ok", ret |-> Dict_values(pickleObj_init(ifile, Index_initial))]
  ELSE List_values(pickleObj_init(cfile, Cache_initial))

\* result of runSearch after the sort
runSearch_result(ifile, cfile, q) ==
  ListSort(SelectSeq(runSearch_scan(ifile, cfile, q).ret, LAMBDA e : matches(e, q)),
           q.alph_sort)

\* the Index file after runSearch: its session is opened 'rb' and is over
\* before the result is sorted and stored
runSearch_index(ifile) ==
  pickleObj_exit("rb", ifile, pickleObj_init(ifile, Index_initial))

\* runSearch(terms, tags, sources, authors, path, refine, alph_sort, in_otis)
runSearch(q) ==
  LET scan == runSearch_scan(indexFile, cacheFile, q)
      result == runSearch_result(indexFile, cacheFile, q)
      stored == pickleListVonCache_set(FreshList(result))
  IN IF scan.out # "ok"
     THEN /\ last' = Ret("runSearch", scan.out, <<>>)
          /\ UNCHANGED <<indexFile, cacheFile>>
     ELSE /\ indexFile' = runSearch_index(indexFile)
          /\ cacheFile' = IF Len(result) > 0 THEN setCache_file(cacheFile, FreshList(result))
                          ELSE cacheFile
          /\ last' = Ret("runSearch", "ok", IF Len(result) > 0 THEN stored.es ELSE <<>>)

\* the keys handed to the lookups
LookupKeys == {sX1, sEmpty, sZ, sDuplicate \o Digits(RandLo)} \cup {Digits(n) : n \in 0..(MaxCacheLen + 1)}

\* the processes that hold sessions of their own on the Index
Procs == {1, 2}

\* a pickleObj nobody has constructed yet
NoSession == [open |-> FALSE, mode |-> "rb", store |-> <<>>, opened |-> 0, closed |-> 0]

Init ==
  /\ indexFile = NoFile
  /\ cacheFile = NoFile
  /\ last = Ret("init", "ok", <<>>)
  /\ calls = 0
  /\ sessions = [p \in Procs |-> NoSession]

\* one more call of the run; a call opens and closes its own sessions
Tick == calls < MaxCalls /\ calls' = calls + 1 /\ UNCHANGED sessions

\* every function of the module, on all the Documents
Next ==
  \/ \E entry \in CallerEntries(Docs) : Tick /\ addEntryToIndex(entry)
  \/ \E problem \in Docs : Tick /\ addProblemToIndex(problem)
  \/ \E old_entry \in CallerEntries(Docs), new_problem \in Docs :
       Tick /\ updateEntryByProblem(old_entry, new_problem)
  \/ \E docs \in DocSeqs(Docs, MaxDocs) : \E rnd \in [1..Len(docs) -> RandValues] :
       Tick /\ rebuildIndex(docs, rnd)
  \/ \E q \in Queries : Tick /\ runSearch(q)
  \/ \E source \in LookupKeys : Tick /\ getEntryBySource(source)
  \/ \E n \in (-MaxCacheLen)..(MaxCacheLen + 1) : Tick /\ getEntryByCacheNum(n)
  \/ Tick /\ readCache
  \/ \E entries \in ArgLists(CallerEntries(Docs), MaxArgs) : Tick /\ setCache(entries)
  \/ \E entries \in ArgLists(CallerEntries(Docs), MaxArgs) : Tick /\ augmentCache(entries)
  \/ Tick /\ clearCache
  \/ \E key \in LookupKeys : Tick /\ getEntryByKey(key)
  \/ \E docs \in DocSeqs(Docs, MaxDocs) : Tick /\ viewDirectory(docs)

Spec == Init /\ [][Next]_vars

\* the Index operations, the lookups and runSearch alone, on CoreDocs
NextCore ==
  \/ \E entry \in CallerEntries(CoreDocs) : Tick /\ addEntryToIndex(entry)
  \/ \E problem \in CoreDocs : Tick /\ addProblemToIndex(problem)
  \/ \E old_entry \in CallerEntries(CoreDocs), new_problem \in CoreDocs :
       Tick /\ updateEntryByProblem(old_entry, new_problem)
  \/ \E docs \in DocSeqs(CoreDocs, MaxDocs) : \E rnd \in [1..Len(docs) -> RandValues] :
       Tick /\ rebuildIndex(docs, rnd)
  \/ \E q \in Queries : Tick /\ runSearch(q)
  \/ \E source \in LookupKeys : Tick /\ getEntryBySource(source)
  \/ \E n \in (-MaxCacheLen)..(MaxCacheLen + 1) : Tick /\ getEntryByCacheNum(n)
  \/ Tick /\ readCache

SpecCore == Init /\ [][NextCore]_vars

\* a client of the Index store itself: puts and bulk replacements with keys
\* and Entries of its choice
StoreKeys == {sX1, sEmpty, sZ}
DocEntries == {Problem_entry(p) : p \in Docs}
Mappings == UNION {[K -> DocEntries] : K \in SUBSET StoreKeys}

NextStore ==
  \/ \E key \in StoreKeys, entry \in DocEntries : Tick /\ IndexPut(key, entry)
  \/ \E d \in Mappings : Tick /\ setEntireIndex(d)
  \/ \E source \in StoreKeys : Tick /\ getEntryBySource(source)

SpecStore == Init /\ [][NextStore]_vars

-----------------------------------------------------------------------------
(* SpecCore: Index key agreement, the Cache after a search, read-only sessions *)

\* the entry a call of the three put operations stores, as <<e>>; <<>> when
\* this step is no such call
StoredEntries ==
  {<<entry>> : entry \in {e \in CallerEntries(Docs) : addEntryToIndex(e)}}
  \cup {<<Problem_entry(p)>> : p \in {d \in Docs : addProblemToIndex(d)}}
  \cup {<<Problem_entry([x[2] EXCEPT !.i = x[1].i])>> :
          x \in {y \in CallerEntries(Docs) \X Docs :
                   updateEntryByProblem(y[1], y[2]) /\ last'.out = "ok"}}

\* C3: every key of the persisted Index maps to an Entry whose source is that
\* key, and after addEntryToIndex, addProblemToIndex or updateEntryByProblem
\* stored an Entry e, getEntryBySource(e.source) returns e.
C3_IndexKeyAgreement ==
  [][/\ \A k \in DOMAIN Index' : Index'[k].source = k
     /\ last'.op \in {"addEntryToIndex", "addProblemToIndex", "updateEntryByProblem"}
          => \A s \in StoredEntries : getEntryBySource_ret(indexFile', s[1].source) = s]_vars

\* a rename by updateEntryByProblem has just stored its Entry under the new
\* source, next to another key
C3_Witness ==
  /\ last.op = "updateEntryByProblem"
  /\ last.out = "ok"
  /\ Cardinality(DOMAIN Index) >= 2
  /\ last.ret[1].source \in DOMAIN Index

\* C4: after a runSearch that returned a non-empty result the persisted Cache
\* is that result in the returned order, numbered 0..N-1; after one that
\* returned the empty result the Cache file is what it was. Both scopes.
C4_SearchCacheEffect ==
  [][last'.op = "runSearch" /\ last'.out = "ok" =>
       IF last'.ret # <<>>
       THEN /\ Cache'.es = last'.ret
            /\ \A p \in 1..Len(Cache'.es) : Cache'.es[p].i = Some(p - 1)
            /\ \A q \in {x \in Queries : runSearch(x)} :
                 [k \in 1..Len(last'.ret) |-> last'.ret[k].source]
                   = [k \in 1..Len(last'.ret) |->
                        runSearch_result(indexFile, cacheFile, q)[k].source]
       ELSE cacheFile' = cacheFile]_vars

\* a search has just replaced the Cache by a result of two or more Entries
C4_Witness ==
  /\ last.op = "runSearch"
  /\ last.out = "ok"
  /\ Len(last.ret) >= 2
  /\ Cache.es = last.ret

\* C5: runSearch, getEntryBySource, getEntryByCacheNum and readCache leave the
\* Index file as it was, the position of every Index Entry included.
C5_ReadOnlyIndex ==
  [][last'.op \in {"runSearch", "getEntryBySource", "getEntryByCacheNum", "readCache"}
       => indexFile' = indexFile]_vars

\* a search has just numbered the Entries it read, and the Index still holds
\* them with the position they had
C5_Witness ==
  /\ last.op = "runSearch"
  /\ last.out = "ok"
  /\ last.ret # <<>>
  /\ \E k \in 1..Len(last.ret) :
       /\ last.ret[k].source \in DOMAIN Index
       /\ Index[last.ret[k].source].i # last.ret[k].i

-----------------------------------------------------------------------------
(* Claims the code does not keep *)

\* C1: every Entry at index p of the persisted Cache has position p, whatever
\* list the caller stored, a list holding one Entry twice included.
C1_CachePositions == \A p \in 1..Len(Cache.es) : Cache.es[p].i = Some(p - 1)

\* C2: an Entry that the Index and the Cache both hold under one source has
\* the same content in both (description, author, url, hardness, tags, path,
\* position).
C2_ContentAgreement ==
  \A k \in 1..Len(Cache.es) :
    Cache.es[k].source \in DOMAIN Index => Index[Cache.es[k].source] = Cache.es[k]

\* the eight fields of an Entry but its position
Content(e) == [e EXCEPT !.i = None]

\* C6: runSearch returns exactly the Entries of the selected store (the Index,
\* or the Cache under refine) that pass every filter of the query, each once
\* per occurrence, in the order of the chosen comparator.
C6_SearchFilterSort ==
  [][last'.op = "runSearch" =>
       \A q \in {x \in Queries : runSearch(x)} :
         LET sel == IF q.refine THEN Cache.es ELSE Dict_values(Index)
             hits == {k \in 1..Len(sel) : matches(sel[k], q)}
             ret == last'.ret
         IN /\ last'.out = "ok"
            /\ Len(ret) = Cardinality(hits)
            /\ \A k \in hits : \E j \in 1..Len(ret) : Content(ret[j]) = Content(sel[k])
            /\ \A j \in 1..Len(ret) : \E k \in hits : Content(ret[j]) = Content(sel[k])
            /\ \A j \in 1..(Len(ret) - 1) : ~Less(ret[j + 1], ret[j], q.alph_sort)]_vars

\* C7: after rebuildIndex the Index holds one Entry per discovered Document,
\* a placeholder key is no identifier of a discovered Document, and one
\* collision is reported per Document whose identifier was already taken,
\* whatever numbers randrange returns.
C7_RebuildKeepsAll ==
  [][last'.op = "rebuildIndex" =>
       \A docs \in DocSeqs(Docs, MaxDocs) : \A rnd \in [1..Len(docs) -> RandValues] :
         rebuildIndex(docs, rnd) =>
           /\ Cardinality(DOMAIN Index') = Len(docs)
           /\ {Index'[k].path : k \in DOMAIN Index'} = {docs[j].path : j \in 1..Len(docs)}
           /\ \A k \in DOMAIN Index' :
                StartsWith(k, sDuplicate) => k \notin {docs[j].source : j \in 1..Len(docs)}
           /\ last'.errs = Cardinality({j \in 1..Len(docs) :
                                          \E m \in 1..(j - 1) : docs[m].source = docs[j].source})]_vars

\* what C8 asks of a lookup of external number n in the Cache of this state
C8_Lookup(n) ==
  IF n >= 1 /\ n <= Len(Cache.es)
  THEN last'.out = "ok" /\ last'.ret = <<Cache.es[n]>>
  ELSE last'.out # "ok"

\* C8: getEntryByCacheNum(n), and getEntryByKey with the digits of n, return
\* the Entry at index n-1 when 1 <= n <= N and raise for every other n.
C8_OutOfRangeRaises ==
  [][/\ last'.op = "getEntryByCacheNum" =>
          \A n \in (-MaxCacheLen)..(MaxCacheLen + 1) : getEntryByCacheNum(n) => C8_Lookup(n)
     /\ last'.op = "getEntryByKey" =>
          \A key \in LookupKeys :
            (IsDigit(key) /\ getEntryByKey(key)) => C8_Lookup(ParseInt(key))]_vars

\* C9: every Entry of the Index has a non-empty source, and no two have the
\* same source.
C9_IndexSources ==
  \A k \in DOMAIN Index :
    /\ Index[k].source # sEmpty
    /\ \A j \in DOMAIN Index : j # k => Index[j].source # Index[k].source

\* C10: a put or a bulk replacement that would store an Entry under a key
\* other than its source raises and leaves the Index as it was, so the Index
\* never holds such a pair.
C10_MismatchRejected ==
  [][/\ last'.op = "put" =>
          \A key \in StoreKeys, entry \in DocEntries :
            (IndexPut(key, entry) /\ key # entry.source) => (last'.out # "ok" /\ Index' = Index)
     /\ last'.op = "setEntireIndex" =>
          \A d \in Mappings :
            (setEntireIndex(d) /\ \E k \in DOMAIN d : d[k].source # k)
              => (last'.out # "ok" /\ Index' = Index)
     /\ \A k \in DOMAIN Index' : Index'[k].source = k]_vars

-----------------------------------------------------------------------------
(* The frame of rebuildIndex (SpecView), stores that have no file yet (SpecCore) *)

\* rnd gives the first Document of every source, which needs no number, the
\* number rebuildIndex fixes for it
FirstDraws(docs, rnd) ==
  \A k \in 1..Len(docs) :
    (\A j \in 1..(k - 1) : docs[j].source # docs[k].source) => rnd[k] = RandLo

\* C11: rebuildIndex leaves the Cache file as it was and replaces the Index by
\* the mapping built from the discovered Documents: every Entry of the new
\* Index is the Entry of a discovered Document under the key it got, every
\* discovered source is a key, and nothing else of the old Index is left.
C11_RebuildFrame ==
  [][last'.op = "rebuildIndex" =>
       /\ cacheFile' = cacheFile
       /\ indexFile' # NoFile
       /\ \A docs \in DocSeqs(CoreDocs, MaxDocs) : \A rnd \in [1..Len(docs) -> RandValues] :
            (FirstDraws(docs, rnd) /\ rebuildIndex(docs, rnd)) =>
              /\ \A k \in DOMAIN Index' : \E j \in 1..Len(docs) :
                   Index'[k] = Problem_entry([docs[j] EXCEPT !.source = k])
              /\ \A j \in 1..Len(docs) : docs[j].source \in DOMAIN Index']_vars

\* a rebuild has just left an Index that lacks a source the Cache holds
C11_Witness ==
  /\ last.op = "rebuildIndex"
  /\ DOMAIN Index # {}
  /\ \E k \in 1..Len(Cache.es) : Cache.es[k].source \notin DOMAIN Index

\* C13: with no Index file getEntryBySource returns None and a search of the
\* Index returns []; with no Cache file a search of the Cache returns []; none
\* raises. The first write session on a store without a file persists the
\* mutations of that session and nothing else.
C13_AbsentStore ==
  [][/\ (last'.op = "getEntryBySource" /\ indexFile = NoFile)
          => (last'.out = "ok" /\ last'.ret = None)
     /\ last'.op = "runSearch" =>
          \A q \in {x \in Queries : runSearch(x)} :
            /\ (~q.refine /\ indexFile = NoFile) => (last'.out = "ok" /\ last'.ret = <<>>)
            /\ (q.refine /\ cacheFile = NoFile) => (last'.out = "ok" /\ last'.ret = <<>>)
     /\ (last'.op = "addEntryToIndex" /\ indexFile = NoFile) =>
          \A e \in {x \in CallerEntries(CoreDocs) : addEntryToIndex(x)} :
            DOMAIN Index' = {e.source} /\ Index'[e.source] = e
     /\ (last'.op = "addProblemToIndex" /\ indexFile = NoFile) =>
          \A p \in {x \in CoreDocs : addProblemToIndex(x)} :
            DOMAIN Index' = {p.source} /\ Index'[p.source] = Problem_entry(p)
     /\ (last'.op = "updateEntryByProblem" /\ last'.out = "ok" /\ cacheFile = NoFile) =>
          Cache'.es = last'.ret]_vars

\* a search has just returned [] with neither store on disk
C13_Witness ==
  /\ last.op = "runSearch"
  /\ last.out = "ok"
  /\ last.ret = <<>>
  /\ indexFile = NoFile
  /\ cacheFile = NoFile

-----------------------------------------------------------------------------
(* SpecSessions: two processes, each with a session of its own on the Index. *)
(* A session is the three steps of `with VonIndex(mode) as index: ...`.      *)

\* one more step of a session
Step == calls < MaxSteps /\ calls' = calls + 1

\* VonIndex(mode) in process p: __init__ loads the store from the file
OpenSession(p, mode) ==
  /\ ~sessions[p].open
  /\ sessions' = [sessions EXCEPT ![p] =
                    [open |-> TRUE, mode |-> mode,
                     store |-> pickleObj_init(indexFile, Index_initial),
                     opened |-> calls + 1, closed |-> 0]]
  /\ last' = Ret("open", "ok", <<>>)
  /\ UNCHANGED <<indexFile, cacheFile>>

\* index[entry.source] = entry inside the session of p: the store in memory
\* changes, the file does not
SessionPut(p, entry) ==
  /\ sessions[p].open
  /\ sessions' = [sessions EXCEPT ![p].store = Dict_setitem(@, entry.source, entry)]
  /\ last' = Ret("setitem", "ok", <<>>)
  /\ UNCHANGED <<indexFile, cacheFile>>

\* __exit__ of the session of p; the object keeps its store
CloseSession(p) ==
  /\ sessions[p].open
  /\ indexFile' = pickleObj_exit(sessions[p].mode, indexFile, sessions[p].store)
  /\ sessions' = [sessions EXCEPT ![p].open = FALSE, ![p].closed = calls + 1]
  /\ last' = Ret("close", "ok", <<>>)
  /\ UNCHANGED cacheFile

NextSessions ==
  \/ \E p \in Procs, mode \in {"rb", "wb"} : Step /\ OpenSession(p, mode)
  \/ \E p \in Procs, entry \in DocEntries : Step /\ SessionPut(p, entry)
  \/ \E p \in Procs : Step /\ CloseSession(p)

SpecSessions == Init /\ [][NextSessions]_vars

\* the last sessions of p and q were write sessions, they overlapped (each
\* loaded the store before the other closed), and q closed after p
Overlapped(p, q) ==
  /\ p # q
  /\ ~sessions[p].open /\ sessions[p].closed > 0 /\ sessions[p].mode = "wb"
  /\ ~sessions[q].open /\ sessions[q].closed > 0 /\ sessions[q].mode = "wb"
  /\ sessions[p].opened < sessions[q].closed
  /\ sessions[q].opened < sessions[p].closed
  /\ sessions[p].closed < sessions[q].closed

\* C12: when two write sessions on the Index overlapped and both have closed,
\* the file holds the store of the one that closed last; what only the other
\* one had put is not in the file, and no step reported an error.
C12_LastWriterWins ==
  \A p, q \in Procs :
    Overlapped(p, q) =>
      /\ indexFile = <<sessions[q].store>>
      /\ last.out = "ok"
      /\ \A k \in DOMAIN sessions[p].store :
           (k \notin DOMAIN sessions[q].store \/ sessions[q].store[k] # sessions[p].store[k])
             => (k \notin DOMAIN Index \/ Index[k] # sessions[p].store[k])

\* two overlapping write sessions have closed, and the one that closed first
\* had put a key the other never held
C12_Witness ==
  \E p, q \in Procs :
    /\ Overlapped(p, q)
    /\ \E k \in DOMAIN sessions[p].store : k \notin DOMAIN sessions[q].store

-----------------------------------------------------------------------------
(* SpecRename: edits of Documents, one of which gives an int as its source *)

RenameDocs == CoreDocs \cup {PIntSource}

NextRename ==
  \/ \E problem \in RenameDocs : Tick /\ addProblemToIndex(problem)
  \/ \E old_entry \in CallerEntries(CoreDocs), new_problem \in RenameDocs :
       Tick /\ updateEntryByProblem(old_entry, new_problem)
  \/ \E source \in LookupKeys : Tick /\ getEntryBySource(source)

SpecRename == Init /\ [][NextRename]_vars

\* C14: an updateEntryByProblem whose new source differs from the old one
\* either leaves the Index with the old source gone, the new source mapped to
\* the new Entry and every other key as it was, or, when it raises, leaves the
\* Index exactly as it was.
C14_RenameAtomic ==
  [][last'.op = "updateEntryByProblem" =>
       \A x \in {y \in CallerEntries(CoreDocs) \X RenameDocs :
                   updateEntryByProblem(y[1], y[2])} :
         LET old == x[1].source
             new == x[2].source
             e == Problem_entry([x[2] EXCEPT !.i = x[1].i])
         IN old # new =>
              \/ /\ last'.out = "ok"
                 /\ old \notin DOMAIN Index'
                 /\ new \in DOMAIN Index'
                 /\ Index'[new] = e
                 /\ DOMAIN Index' = ((DOMAIN Index) \ {old}) \cup {new}
                 /\ \A k \in (DOMAIN Index) \ {old, new} : Index'[k] = Index[k]
              \/ /\ last'.out # "ok"
                 /\ Index' = Index]_vars

-----------------------------------------------------------------------------
(* SpecEdit: edits of Documents next to a Cache that callers fill *)

NextEdit ==
  \/ \E entries \in ArgLists(CallerEntries(CoreDocs), MaxArgs) : Tick /\ setCache(entries)
  \/ \E problem \in CoreDocs : Tick /\ addProblemToIndex(problem)
  \/ \E old_entry \in CallerEntries(CoreDocs), new_problem \in CoreDocs :
       Tick /\ updateEntryByProblem(old_entry, new_problem)

SpecEdit == Init /\ [][NextEdit]_vars

\* C15: an updateEntryByProblem that returns replaces the first Cache Entry
\* with the old source, at index p, by the new Entry with position p and
\* leaves the length and every other element alone; with no such Entry it
\* appends the new Entry with the old length as position and leaves the
\* earlier elements alone.
C15_UpdateCacheEffect ==
  [][(last'.op = "updateEntryByProblem" /\ last'.out = "ok") =>
       \A x \in {y \in CallerEntries(CoreDocs) \X CoreDocs :
                   updateEntryByProblem(y[1], y[2])} :
         LET n == Len(Cache.es)
             hits == {k \in 1..n : Cache.es[k].source = x[1].source}
         IN IF hits # {}
            THEN LET p == CHOOSE k \in hits : \A j \in hits : k <= j
                 IN /\ Len(Cache'.es) = n
                    /\ Cache'.es[p] = Problem_entry([x[2] EXCEPT !.i = Some(p - 1)])
                    /\ \A k \in 1..n : k # p => Cache'.es[k] = Cache.es[k]
            ELSE /\ Len(Cache'.es) = n + 1
                 /\ Cache'.es[n + 1] = Problem_entry([x[2] EXCEPT !.i = Some(n)])
                 /\ \A k \in 1..n : Cache'.es[k] = Cache.es[k]]_vars

\* an edit has just replaced the first of two Cache Entries in place
C15_Witness ==
  /\ last.op = "updateEntryByProblem"
  /\ last.out = "ok"
  /\ Len(Cache.es) = 2
  /\ last.ret = <<Cache.es[1]>>
  /\ Cache.es[2].source = Cache.es[1].source

-----------------------------------------------------------------------------
(* SpecView: the two functions that fill the Cache with a sorted view, over *)
(* an Index that rebuildIndex builds                                        *)

NextView ==
  \/ \E docs \in DocSeqs(CoreDocs, MaxDocs) : \E rnd \in [1..Len(docs) -> RandValues] :
       Tick /\ rebuildIndex(docs, rnd)
  \/ \E q \in Queries : Tick /\ runSearch(q)
  \/ \E docs \in DocSeqs(Docs, MaxDocs) : Tick /\ viewDirectory(docs)

SpecView == Init /\ [][NextView]_vars

\* the hardness of an Entry, or the default the sort key has in its place
HardnessOrDefault(e) == IF e.hardness # None THEN e.hardness[1] ELSE -1

\* a <= b in the order of (bucket, hardnessOrDefault, source)
KeyLeq(a, b) ==
  \/ sortvalue(a) < sortvalue(b)
  \/ /\ sortvalue(a) = sortvalue(b)
     /\ HardnessOrDefault(a) < HardnessOrDefault(b)
  \/ /\ sortvalue(a) = sortvalue(b)
     /\ HardnessOrDefault(a) = HardnessOrDefault(b)
     /\ (a.source = b.source \/ StrLt(a.source, b.source))

\* ret is in the default order: no later element is below an earlier one, and
\* a lower bucket comes first whatever the hardness values are
DefaultOrder(ret) ==
  \A j, k \in 1..Len(ret) :
    /\ j < k => KeyLeq(ret[j], ret[k])
    /\ sortvalue(ret[j]) < sortvalue(ret[k]) => j < k

\* C16: with alph_sort false what runSearch and viewDirectory return is
\* non-decreasing in (bucket, hardnessOrDefault, source), so a lower bucket
\* precedes a higher one whatever the hardness; with alph_sort true what
\* runSearch returns is non-decreasing in source.
C16_DefaultSortOrder ==
  [][/\ (last'.op = "runSearch" /\ last'.out = "ok") =>
          \A q \in {x \in Queries : runSearch(x)} :
            IF q.alph_sort
            THEN \A j, k \in 1..Len(last'.ret) :
                   j < k => ~StrLt(last'.ret[k].source, last'.ret[j].source)
            ELSE DefaultOrder(last'.ret)
     /\ last'.op = "viewDirectory" => DefaultOrder(last'.ret)]_vars

\* a search has just returned an Entry of a lower bucket before one of a
\* higher bucket and lower hardness
C16_Witness ==
  /\ last.op = "runSearch"
  /\ last.out = "ok"
  /\ \E j, k \in 1..Len(last.ret) :
       /\ j < k
       /\ sortvalue(last.ret[j]) < sortvalue(last.ret[k])
       /\ HardnessOrDefault(last.ret[j]) > HardnessOrDefault(last.ret[k])

-----------------------------------------------------------------------------
(* SpecSort: the order of GenericItem on pairs of Entries *)

\* Entries with and without a priority tag, with no hardness and with
\* negative, zero and positive hardness
SortEntries ==
  {Problem_entry(Problem(sPath1, source, sEmpty, None, hardness, tags)) :
     source \in {sX1, sZ},
     hardness \in {None, Some(-2), Some(-1), Some(0), Some(5)},
     tags \in {<<>>, <<sA>>}}

InitSort ==
  /\ indexFile = NoFile
  /\ cacheFile = NoFile
  /\ calls = 0
  /\ sessions = [p \in Procs |-> NoSession]
  /\ last \in {Ret("entries", "ok", <<a, b>>) : a \in SortEntries, b \in SortEntries}

\* a < b
CompareEntries ==
  /\ last.op = "entries"
  /\ last' = Ret("lt", IF GenericItem_lt(last.ret[1], last.ret[2]) THEN "True" ELSE "False",
                 last.ret)
  /\ UNCHANGED <<indexFile, cacheFile, calls, sessions>>

\* [a, b].sort()
SortEntriesPair ==
  /\ last.op = "entries"
  /\ last' = Ret("sort", "ok", ListSort(last.ret, FALSE))
  /\ UNCHANGED <<indexFile, cacheFile, calls, sessions>>

NextSort ==
  \/ CompareEntries
  \/ SortEntriesPair

SpecSort == InitSort /\ [][NextSort]_vars

\* C17: of two Entries of one bucket, one without hardness and one with an
\* integer hardness, the one without is less than the other and is first in
\* the sorted pair, whatever the integer and the sources are.
C17_AbsentHardnessLowest ==
  [][\A a, b \in SortEntries :
       (/\ sortvalue(a) = sortvalue(b)
        /\ a.hardness = None
        /\ b.hardness # None
        /\ last.op = "entries"
        /\ last.ret \in {<<a, b>>, <<b, a>>})
       => /\ last'.op = "sort" => last'.ret = <<a, b>>
          /\ last'.op = "lt" => last'.out = (IF last.ret = <<a, b>> THEN "True" ELSE "False")]_vars

-----------------------------------------------------------------------------
(* SpecCore: searches of the Cache *)

\* how often the content of e (its fields but the position) occurs in es
Occurrences(e, es) == Cardinality({k \in 1..Len(es) : Content(es[k]) = Content(e)})

-----------------------------------------------------------------------------
(* SpecKey: lookups by key over an Index that holds an all-digit source *)

KeyDocs == CoreDocs \cup {PDigits}

NextKey ==
  \/ \E problem \in KeyDocs : Tick /\ addProblemToIndex(problem)
  \/ \E q \in {Q0, [Q0 EXCEPT !.tags = <<sB>>]} : Tick /\ runSearch(q)
  \/ \E key \in LookupKeys : Tick /\ getEntryByKey(key)

SpecKey == Init /\ [][NextKey]_vars

\* C19: getEntryByKey resolves an all-digit key n against the Cache by
\* position and never against the Index, so an Index Entry with that source
\* is not what it returns; it resolves any other key against the Index by
\* source and never against the Cache, and returns None without an error
\* when the Index lacks the source.
C19_KeyRouting ==
  [][last'.op = "getEntryByKey" =>
       \A key \in {x \in LookupKeys : getEntryByKey(x)} :
         IF IsDigit(key)
         THEN LET n == ParseInt(key)
              IN /\ last'.out = "ok" => (last'.ret # <<>> /\ last'.ret[1] \in Range(Cache.es))
                 /\ (n >= 1 /\ n <= Len(Cache.es)) => last'.ret = <<Cache.es[n]>>
                 /\ Len(Cache.es) = 0 => last'.out # "ok"
                 /\ key \in DOMAIN Index => last'.ret # <<Index[key]>>
         ELSE /\ last'.out = "ok"
              /\ last'.ret = (IF key \in DOMAIN Index THEN <<Index[key]>> ELSE None)]_vars

\* a lookup by key has just returned an Entry of the Cache while the Index
\* holds the source "1"
C19_Witness ==
  /\ last.op = "getEntryByKey"
  /\ last.out = "ok"
  /\ <<49>> \in DOMAIN Index
  /\ last.ret # <<>>
  /\ last.ret[1].i # None

-----------------------------------------------------------------------------
(* SpecView: the Cache after a listing *)

\* C20: viewDirectory on a directory with Documents leaves the Cache holding
\* exactly the Entries of the listed Documents, in the default order, with
\* positions 0..N-1; on a directory without Documents it leaves the Cache
\* file as it was; either way it leaves the Index file as it was.
C20_ListingCacheEffect ==
  [][last'.op = "viewDirectory" =>
       /\ indexFile' = indexFile
       /\ \A docs \in {x \in DocSeqs(Docs, MaxDocs) : viewDirectory(x)} :
            IF Len(docs) > 0
            THEN /\ Len(Cache'.es) = Len(docs)
                 /\ \A j \in 1..Len(docs) :
                      \E k \in 1..Len(docs) : Content(Cache'.es[k]) = Problem_entry(docs[j])
                 /\ \A k \in 1..Len(docs) : Cache'.es[k].i = Some(k - 1)
                 /\ DefaultOrder(Cache'.es)
                 /\ last'.ret = Cache'.es
            ELSE /\ cacheFile' = cacheFile
                 /\ last'.ret = <<>>]_vars

\* a listing of two Documents has just become the Cache, next to an Index
\* that lacks one of them
C20_Witness ==
  /\ last.op = "viewDirectory"
  /\ Len(last.ret) = 2
  /\ Cache.es = last.ret
  /\ DOMAIN Index # {}
  /\ \E k \in 1..2 : Cache.es[k].source \notin DOMAIN Index

====
